---- MODULE Spec2Model ----
(***************************************************************************)
(* Model of the sampling notebook of the uq-course repository              *)
(* ("Common Random Variables and How to Sample Them").                     *)
(*                                                                         *)
(* The notebook keeps its state in kernel globals: the state of the        *)
(* linear congruential generator (lcg_state), its seed, the modulus m, and *)
(* the variables of the cells that loop over lcg.  The sampling functions  *)
(* draw their uniform number from numpy's generator, which is library      *)
(* state: a draw is a nondeterministic choice over the values the library  *)
(* can return.                                                             *)
(*                                                                         *)
(* Python integers are unbounded, so (a * x + b) % m is exact in the       *)
(* source.  The model computes the same exact value with every             *)
(* intermediate result below 2^31 (MulMod).                                *)
(*                                                                         *)
(* A float in [0,1] is modelled as its numerator over the denominator Den; *)
(* comparisons of floats are exact, and so are sums of multiples of 1/Den  *)
(* when Den is a power of two.  A quotient d / (1. * m) is kept as the     *)
(* pair <<d, m>>.                                                          *)
(***************************************************************************)
EXTENDS Integers, Sequences, FiniteSets, TLC

VARIABLES
    m,             \* global m, "the maximum integer"
    lcg_seed,      \* global lcg_seed
    lcg_state,     \* global lcg_state, the internal state of unif_lcg
    lcg_ret,       \* what the last call of unif_lcg returned: <<d, m>>, or <<>>
    ncalls,        \* calls of unif_lcg since lcg_state was initialised
    samples,       \* what the single calls returned since then, in order
    prev_samples,  \* the samples of the previous execution of the cell
    first_sample,  \* what call number 1 returned, or <<>>
    seed_returned, \* some call since the initialisation returned lcg_seed / m
    hist_runs,     \* executions of the histogram cell
    mt_ret,        \* what the last call of unif_mt returned: <<d, m>>, or <<>>
    s,             \* loop variable of the cell "s = seed; s = lcg(s)"
    s_prev,        \* value of s before the last iteration
    loop_k,        \* iterations of that loop done
    la, lb, lm,    \* the parameters a, b, m the loop passes to lcg
    theta,         \* argument of sample_bernoulli
    b_u,           \* the uniform number sample_bernoulli drew
    b_ret,         \* what sample_bernoulli returned
    b_called,      \* sample_bernoulli has returned
    d_p,           \* argument of sample_discrete
    d_u,           \* the uniform number sample_discrete drew
    d_ret,         \* what sample_discrete returned: [tag, val]
    d_called,      \* sample_discrete has returned
    e_r,           \* argument of sample_exp, the rate
    e_u,           \* the uniform number sample_exp drew
    e_ret,         \* what sample_exp returned: [kind, num, den]
    e_called,      \* sample_exp has returned
    mt_gen,        \* the library generator's recurrence: <<a, c>>
    mt_state,      \* the library generator's internal state
    mt_seed,       \* the seed np.random.seed was last called with, or NoSeed
    mt_pos,        \* draws from the library generator since it was seeded
    printed1,      \* what the cell "np.random.seed(12345); 5 integers" printed
    printed2,      \* what the cell "5 integers" printed
    printed3,      \* what the cell "reset the seed; 5 integers" printed
    cell2_seed,    \* mt_seed when the cell "5 integers" last started
    cell2_pos,     \* mt_pos when the cell "5 integers" last started
    ms_arg,        \* argument s of a call of middlesquare
    ms_digits,     \* argument digits of that call
    ms_ret,        \* what the call returned
    ms_called,     \* the call has returned
    ms_seed,       \* global seed of the middle-square cell run last, or NoSeed
    ms_s,          \* global s after that cell
    ms_printed,    \* what that cell printed, in order
    nb_open,       \* the notebook the kernel runs
    nb_names,      \* the names bound in the kernel's global namespace
    nb_before,     \* nb_names before the cell executed last
    nb_last,       \* the cell executed last, an index of Cells, or 0
    nb_error,      \* how that execution ended: NoError or NameError
    nb_count,      \* cells executed since the kernel started
    nb_inorder,    \* they were the notebook's first nb_count cells, in order
    cat_x,         \* the parameter vector x of the catalysis model
    cat_A,         \* what A(x) returned, or <<>>
    cat_z,         \* the argument z of the last call g(z, t, x)
    cat_g,         \* what that call returned, or <<>>
    cat_Z,         \* what Z(x, t_exp) returned inside L, or <<>>
    cat_F,         \* what F(x, t_exp) returned inside L, or <<>>
    cat_f          \* what f(x, t_exp) returned inside L, or <<>>

prng_vars == <<m, lcg_seed, lcg_state, lcg_ret, ncalls, samples, prev_samples,
               first_sample, seed_returned, hist_runs, mt_ret>>
loop_vars == <<s, s_prev, loop_k, la, lb, lm>>
bern_vars == <<theta, b_u, b_ret, b_called>>
disc_vars == <<d_p, d_u, d_ret, d_called>>
exp_vars == <<e_r, e_u, e_ret, e_called>>
mt_vars == <<mt_gen, mt_state, mt_seed, mt_pos, printed1, printed2, printed3,
             cell2_seed, cell2_pos>>
ms_vars == <<ms_arg, ms_digits, ms_ret, ms_called, ms_seed, ms_s, ms_printed>>
nb_vars == <<nb_open, nb_names, nb_before, nb_last, nb_error, nb_count,
             nb_inorder>>
cat_vars == <<cat_x, cat_A, cat_z, cat_g, cat_Z, cat_F, cat_f>>
later_vars == <<exp_vars, mt_vars, ms_vars, nb_vars, cat_vars>>
vars == <<prng_vars, loop_vars, bern_vars, disc_vars, later_vars>>

----------------------------------------------------------------------------
(* Program constants *)

LcgA == 123456
LcgB == 978564
LcgM == 6012119
MaxInteger == 6012119
LcgSeed == 123456
LoopSeed == 1234
HistN == 10000
\* np.random.seed(12345)
MtSeed == 12345
\* np.random.seed(123456), in the cell of unif_mt
UnifMtSeed == 123456
\* for _ in range(5): print np.random.randint(0, 6012119)
MtPrints == 5
MtHigh == 6012119
\* def middlesquare(s, digits=4)
DefaultDigits == 4
\* seed = 1234 and seed = 540, for _ in range(20)
MiddleSeed == 1234
PeriodicSeed == 540
MiddleIters == 20
\* k = np.exp(x) / 180.
RateScale == 180
\* z0 = np.array([500., 0., 0., 0., 0., 0.])
InitialMass == 500
\* t_exp = np.array([30. * j for j in range(1, 7)])
TimeStep == 30
LastTime == 7

(* Bounds of the model *)

MaxCalls == 5
MaxLoop == 3
MaxRuns == 301
Den == 8
MaxLen == 3
LogTerms == 60
\* Size of the state space the library generator is modelled with.
MtMod == 5
\* Draws from the library generator followed after a call of np.random.seed.
MaxPos == 12
\* Cells executed out of the notebook's order after a start of the kernel.
MaxCells == 2
\* Terms of the exponential series np.exp is computed with.
ExpTerms == 8
\* Steps the solver takes between two of the times it reports.
SubSteps == 3

----------------------------------------------------------------------------
(* The linear congruential generator *)

Limb == 2^7

\* (a * x) % m for a >= 0 and m > 0, as Python computes it on unbounded
\* integers: the result is in 0..m-1 also for a negative x.  The product is
\* taken limb by limb of a so that no intermediate value leaves 32 bits.
RECURSIVE MulMod(_, _, _)
MulMod(a, x, mm) ==
    IF a = 0 THEN 0
    ELSE ((a % Limb) * (x % mm) + Limb * MulMod(a \div Limb, x, mm)) % mm

lcg_no_increment(x, a, b, mm) == MulMod(a, x, mm)

\* The remainder truncated towards zero (C, Java) instead of Python's floored one.
lcg_truncated(x, a, b, mm) ==
    LET r == (MulMod(a, x, mm) + b) % mm
    IN  IF x < 0 /\ (0 - x) > b \div a /\ r # 0 THEN r - mm ELSE r

lcg(x, a, b, mm) == (MulMod(a, x, mm) + b) % mm

\* The state unif_lcg stores: lcg applied to the global state, default a, b, m.
unif_lcg_reseeding == lcg(lcg_seed, LcgA, LcgB, LcgM)

unif_lcg_state == lcg(lcg_state, LcgA, LcgB, LcgM)

\* One call of unif_lcg made inside a list comprehension: the pair r is
\* <<lcg_state, some call so far returned lcg_seed / m>>.
CallInList(r) ==
    LET y == lcg(r[1], LcgA, LcgB, LcgM)
    IN  <<y, r[2] \/ y = lcg_seed>>

\* [unif_lcg() for _ in range(n)]: n calls in a row.  The calls are split in
\* halves, each half evaluated before the next one starts.
RECURSIVE CallsInList(_, _)
CallsInList(r, n) ==
    IF n = 0 THEN r
    ELSE IF n = 1 THEN CallInList(r)
    ELSE LET h == CallsInList(r, n \div 2)
         IN  IF h[1] >= 0 THEN CallsInList(h, n - (n \div 2)) ELSE h

\* The integers np.random.randint(low, high) can return: low..high-1.  The
\* model draws from both ends and the middle of that range.
randint(low, high) ==
    {d \in {low, low + 1, (low + high) \div 2, high - 2, high - 1} :
        low <= d /\ d < high}

\* lcg_state = lcg_seed: the state the cell gives the generator.
CellLcgStateStale(seed) == lcg_state

CellLcgState(seed) == seed

----------------------------------------------------------------------------
(* The sampling functions *)

\* The floats np.random.rand() can return, as numerators over Den: [0, 1).
rand == 0 .. Den - 1

\* The arguments theta the model calls sample_bernoulli with: the multiples
\* of 1/Den in [0, 1] and a few outside.
ThetaRange == (0 - 2) .. (Den + 2)

sample_bernoulli_strict(th, u) == IF u < th THEN 1 ELSE 0

sample_bernoulli_swapped(th, u) == IF th <= u THEN 1 ELSE 0

sample_bernoulli(th, u) == IF u <= th THEN 1 ELSE 0

\* What sample_discrete returns: an index, or None when the loop ends.
IntReturn(j) == [tag |-> "int", val |-> j]
NoneReturn == [tag |-> "None", val |-> 0]

RECURSIVE discrete_loop_strict(_, _, _, _)
discrete_loop_strict(p, u, c, j) ==
    IF j >= Len(p) THEN NoneReturn
    ELSE LET c2 == c + p[j + 1]
         IN  IF u < c2 THEN IntReturn(j) ELSE discrete_loop_strict(p, u, c2, j + 1)

sample_discrete_strict(p, u) == discrete_loop_strict(p, u, 0, 0)

\* sample_discrete with the last state left out of the loop: range(m - 1)
\* in place of range(m).
RECURSIVE discrete_loop_short(_, _, _, _)
discrete_loop_short(p, u, c, j) ==
    IF j >= Len(p) - 1 THEN NoneReturn
    ELSE LET c2 == c + p[j + 1]
         IN  IF u <= c2 THEN IntReturn(j) ELSE discrete_loop_short(p, u, c2, j + 1)

sample_discrete_short(p, u) == discrete_loop_short(p, u, 0, 0)

\* for j in range(m): c += p[j]; if u <= c: return j
\* (indices from 0 as in the source; p[j] of the source is p[j + 1] here)
RECURSIVE discrete_loop(_, _, _, _)
discrete_loop(p, u, c, j) ==
    IF j >= Len(p) THEN NoneReturn
    ELSE LET c2 == c + p[j + 1]
         IN  IF u <= c2 THEN IntReturn(j) ELSE discrete_loop(p, u, c2, j + 1)

\* The index counted from 1 instead of 0.
sample_discrete_one_based(p, u) ==
    LET r == discrete_loop(p, u, 0, 0)
    IN  IF r.tag = "int" THEN IntReturn(r.val + 1) ELSE r

sample_discrete(p, u) == discrete_loop(p, u, 0, 0)

\* The arrays p the model calls sample_discrete with: up to MaxLen entries,
\* each a multiple of 1/Den from -1/Den to 1.
PRange == (0 - 1) .. Den
PArrays == UNION {[1 .. n -> PRange] : n \in 0 .. MaxLen}

\* The fixed-point unit in which the model keeps np.log: a logarithm x is
\* kept as the integer part of x * LogScale.
LogScale == 10^6

\* The powers u^n / n of the series -ln(1 - u) = u + u^2/2 + u^3/3 + ..., from
\* the n-th on, with pw = u^(n-1) in fixed point and u = k / Den.
RECURSIVE LogSeries(_, _, _)
LogSeries(k, pw, n) ==
    IF n > LogTerms THEN 0
    ELSE LET pn == (pw * k) \div Den
         IN  IF pn = 0 THEN 0 ELSE (pn \div n) + LogSeries(k, pn, n + 1)

\* np.log(1. - u) for u = k / Den in [0, 1), in fixed point: never positive.
log_one_minus(k) == 0 - LogSeries(k, LogScale, 1)

\* What sample_exp returns: the quotient num / den, or what numpy's float
\* division by zero yields (inf or nan, with a warning and no exception).
Finite(num, den) == [kind |-> "finite", num |-> num, den |-> den]
Inf == [kind |-> "inf", num |-> 0, den |-> 0]
NaN == [kind |-> "nan", num |-> 0, den |-> 0]

\* The sign of the logarithm kept: np.log(1. - u) / r.
sample_exp_no_minus(r, u) ==
    LET x == log_one_minus(u)
    IN  IF r = 0 THEN (IF x = 0 THEN NaN ELSE Inf)
        ELSE Finite(x * Den, LogScale * r)

\* return -np.log(1. - u) / r, for r = k / Den: the logarithm over LogScale
\* divided by k / Den.
sample_exp(r, u) ==
    LET x == 0 - log_one_minus(u)
    IN  IF r = 0 THEN (IF x = 0 THEN NaN ELSE Inf)
        ELSE Finite(x * Den, LogScale * r)

\* The rates the model calls sample_exp with: multiples of 1/Den, some <= 0.
RateRange == (0 - 2) .. (Den + 2)

\* numpy's generator is a library, not code of the notebook.  It is modelled
\* as a deterministic generator with a hidden state: np.random.seed(n) sets
\* the state from n alone, and every draw returns a function of the state and
\* moves it one step.  Which recurrence it is, is left open: mt_gen is any of
\* MtGens.
NoSeed == 0 - 1
MtGens == (1 .. MtMod - 1) \X (0 .. MtMod - 1)

\* np.random.seed(n), ignored: the generator keeps its state.
np_random_seed_kept(st, n) == st

\* np.random.seed(n): the state <<mt_state, mt_seed, mt_pos>> after the call.
np_random_seed(st, n) == <<n % MtMod, n, 0>>

mt_next(g, x) == (g[1] * x + g[2]) % MtMod

\* np.random.randint(low, high) in state x: an integer of low..high-1.
mt_randint(x, low, high) == low + (x * (high - low)) \div MtMod

\* for _ in range(n): print np.random.randint(0, high)
\* gives <<the state after the loop, the integers printed>>.
RECURSIVE PrintInts(_, _, _, _)
PrintInts(g, x, high, n) ==
    IF n = 0 THEN <<x, <<>>>>
    ELSE LET y == mt_next(g, x)
             r == PrintInts(g, y, high, n - 1)
         IN  <<r[1], <<mt_randint(y, 0, high)>> \o r[2]>>

\* str(n) for n >= 0: the decimal digits, most significant first.
RECURSIVE Str(_)
Str(n) == IF n < 10 THEN <<n>> ELSE Append(Str(n \div 10), n % 10)

\* str.zfill(width): zeros on the left up to width characters.
Zfill(str, width) ==
    IF Len(str) >= width THEN str
    ELSE [i \in 1 .. width - Len(str) |-> 0] \o str

\* str[a:] for a >= 0.
SliceFrom(str, a) == SubSeq(str, a + 1, Len(str))

\* str[:b]: for b < 0 all but the last -b characters.
SliceTo(str, b) ==
    IF b < 0 THEN SubSeq(str, 1, Len(str) + b)
    ELSE SubSeq(str, 1, IF b < Len(str) THEN b ELSE Len(str))

\* int(str) of a string of digits; int('') raises ValueError.
ValueError == 0 - 1
RECURSIVE int(_)
int(str) ==
    IF str = <<>> THEN ValueError
    ELSE IF Len(str) = 1 THEN str[1]
    ELSE 10 * int(SubSeq(str, 1, Len(str) - 1)) + str[Len(str)]

\* The arguments digits the model calls middlesquare with.
Digits == {1, 2, 3, DefaultDigits}

\* middlesquare with the square not padded: str(s2) in place of
\* str(s2).zfill(2*digits).
middlesquare_no_zfill(x, digits) ==
    LET s2 == x * x
        s2_str == Str(s2)
        middle_str == SliceTo(SliceFrom(s2_str, digits \div 2),
                              (0 - digits) \div 2)
    IN  int(middle_str)

\* middlesquare with -digits/2 rounded towards zero: -(digits/2).
middlesquare_trunc_div(x, digits) ==
    LET s2 == x * x
        s2_str == Zfill(Str(s2), 2 * digits)
        middle_str == SliceTo(SliceFrom(s2_str, digits \div 2),
                              0 - (digits \div 2))
    IN  int(middle_str)

\* digits/2 and -digits/2 are Python 2 integer divisions, rounded down.
middlesquare(x, digits) ==
    LET s2 == x * x
        s2_str == Zfill(Str(s2), 2 * digits)
        middle_str == SliceTo(SliceFrom(s2_str, digits \div 2),
                              (0 - digits) \div 2)
    IN  int(middle_str)

\* for _ in range(n): s = middlesquare(s, digits=4); print s
\* gives <<s after the loop, the values printed>>; a ValueError of int ends
\* the loop.
RECURSIVE MiddleLoop(_, _)
MiddleLoop(x, n) ==
    IF n = 0 THEN <<x, <<>>>>
    ELSE LET y == middlesquare(x, DefaultDigits)
         IN  IF y = ValueError THEN <<x, <<>>>>
             ELSE LET r == MiddleLoop(y, n - 1)
                  IN  <<r[1], <<y>> \o r[2]>>

\* The notebooks whose code cells are modelled, each run by a kernel of its
\* own.
Notebooks == {"part_000", "handout_19"}

NoError == "NoError"
NameError == "NameError"

\* A statement, or a run of statements that bind nothing: the global names
\* it reads (r) and the global names it binds (b).  The builtins (range, len,
\* str, int) are always bound and are left out.  A Python 2 loop or list
\* comprehension binds its loop variable in the global namespace.
St(r, b) == [r |-> r, b |-> b]

\* A code cell: its notebook, its first and last line in the file, and its
\* statements in order.
Cell(nb, first, last, steps) ==
    [nb |-> nb, lines |-> <<first, last>>, steps |-> steps]

\* The code cells of part_000, in the order of the file.
CellsPart000 == <<
    Cell("part_000", 18, 23,
          <<St({}, {"mpl"}),
             St({"mpl"}, {}),
             St({}, {"plt"}),
             St({}, {"sns"}),
             St({}, {"np"})>>),
    Cell("part_000", 52, 59,
          <<St({}, {"middlesquare"})>>),
    Cell("part_000", 68, 72,
          <<St({}, {"seed"}),
             St({"seed"}, {"s"}),
             St({"s", "middlesquare"}, {"s", "_"})>>),
    Cell("part_000", 88, 92,
          <<St({}, {"seed"}),
             St({"seed"}, {"s"}),
             St({"s", "middlesquare"}, {"s", "_"})>>),
    Cell("part_000", 116, 117,
          <<St({}, {"lcg"})>>),
    Cell("part_000", 126, 130,
          <<St({}, {"seed"}),
             St({"seed"}, {"s"}),
             St({"s", "lcg"}, {"s", "_"})>>),
    Cell("part_000", 158, 162,
          <<St({"np"}, {}),
             St({"np"}, {"_"})>>),
    Cell("part_000", 171, 173,
          <<St({"np"}, {"_"})>>),
    Cell("part_000", 182, 185,
          <<St({"np"}, {}),
             St({"np"}, {"_"})>>),
    Cell("part_000", 216, 237,
          <<St({}, {"m"}),
             St({}, {"lcg_seed"}),
             St({"lcg_seed"}, {"lcg_state"}),
             St({}, {"unif_lcg"}),
             St({"unif_lcg"}, {"_"}),
             St({"np"}, {}),
             St({}, {"unif_mt"}),
             St({"unif_mt"}, {"_"})>>),
    Cell("part_000", 253, 263,
          <<St({}, {"N"}),
             St({"unif_lcg", "N"}, {"lcg_X", "_"}),
             St({"unif_mt", "N"}, {"mt_X", "_"}),
             St({"plt"}, {"fig", "ax"}),
             St({"ax", "lcg_X", "mt_X", "plt"}, {})>>),
    Cell("part_000", 284, 286,
          <<St({"np"}, {"X"}),
             St({"X"}, {})>>),
    Cell("part_000", 329, 336,
          <<St({}, {"sample_bernoulli"}),
             St({"sample_bernoulli"}, {"_"})>>),
    Cell("part_000", 345, 351,
          <<St({}, {"N"}),
             St({"sample_bernoulli", "N"}, {"X", "_"}),
             St({"plt"}, {"fig", "ax"}),
             St({"ax", "X"}, {})>>),
    Cell("part_000", 406, 422,
          <<St({}, {"sample_discrete"})>>),
    Cell("part_000", 431, 440,
          <<St({}, {"p"}),
             St({}, {"N"}),
             St({"sample_discrete", "p", "N"}, {"X", "_"}),
             St({"plt"}, {"fig", "ax"}),
             St({"ax", "X"}, {})>>),
    Cell("part_000", 458, 468,
          <<St({"np", "p", "N"}, {"X_np"}),
             St({"plt"}, {"fig", "ax"}),
             St({"ax", "X", "X_np", "plt"}, {})>>),
    Cell("part_000", 506, 521,
          <<St({}, {"st"}),
             St({}, {"plot_binom_pdf"}),
             St({"plot_binom_pdf"}, {})>>),
    Cell("part_000", 537, 537,
          <<St({"plot_binom_pdf"}, {})>>),
    Cell("part_000", 586, 592,
          <<St({}, {"r"}),
             St({"plt"}, {"fig", "ax"}),
             St({"np", "r"}, {"t"}),
             St({"ax", "t", "st", "r"}, {})>>),
    Cell("part_000", 613, 625,
          <<St({}, {"sample_exp"}),
             St({}, {"N"}),
             St({"sample_exp", "r", "N"}, {"T", "_"}),
             St({"plt"}, {"fig", "ax"}),
             St({"ax", "T", "t", "st", "r", "plt"}, {})>>),
    Cell("part_000", 663, 681,
          <<St({}, {"r"}),
             St({}, {"N"}),
             St({}, {"M"}),
             St({"np", "r", "N", "M"}, {"Ts"}),
             St({"np", "Ts", "N"}, {"SN"}),
             St({"plt"}, {"fig", "ax"}),
             St({"ax", "SN"}, {}),
             St({"r"}, {"mu_CLT"}),
             St({"np", "N", "r"}, {"sigma_CLT"}),
             St({"np", "SN"}, {"Ss"}),
             St({"ax", "Ss", "st", "mu_CLT", "sigma_CLT", "N", "plt"}, {})>>)>>

\* The code cells of handout_19, in the order of the file.
CellsHandout19 == <<
    Cell("handout_19", 30, 44,
          <<St({}, {"np"}),
             St({}, {"math"}),
             St({}, {"st"}),
             St({}, {"scipy"}),
             St({}, {"mpl"}),
             St({}, {"plt"}),
             St({"mpl"}, {}),
             St({}, {"sns"}),
             St({"sns"}, {}),
             St({}, {"design"}),
             St({}, {"warnings"}),
             St({"warnings"}, {}),
             St({}, {"orthpol"})>>),
    Cell("handout_19", 166, 170,
          <<St({}, {"pd"}),
             St({"pd"}, {"catalysis_data"}),
             St({"catalysis_data"}, {})>>),
    Cell("handout_19", 188, 188,
          <<St({"catalysis_data"}, {})>>),
    Cell("handout_19", 207, 207,
          <<St({"catalysis_data"}, {})>>),
    Cell("handout_19", 346, 346,
          <<St({"catalysis_data"}, {})>>),
    Cell("handout_19", 419, 480,
          <<St({}, {"scipy", "scipy.integrate"}),
             St({}, {"A"}),
             St({}, {"g"}),
             St({"np"}, {"z0"}),
             St({"np"}, {"t_exp", "j"}),
             St({"catalysis_data"}, {"Y"}),
             St({"Y"}, {"y"}),
             St({}, {"Z"}),
             St({}, {"F"}),
             St({}, {"f"}),
             St({}, {"L"})>>),
    Cell("handout_19", 498, 507,
          <<St({}, {"scipy", "scipy.optimize"}),
             St({"np"}, {"x0"}),
             St({"scipy", "scipy.optimize", "L", "x0", "t_exp", "y"}, {"res"}),
             St({"res"}, {})>>),
    Cell("handout_19", 519, 532,
          <<St({"res"}, {"x"}),
             St({"np"}, {"t"}),
             St({"np"}, {"x1"}),
             St({"Z", "x", "t"}, {"Yp"}),
             St({"plt"}, {"fig", "ax"}),
             St({"catalysis_data", "ax", "t", "Yp", "sns", "plt"}, {})>>),
    Cell("handout_19", 637, 661,
          <<St({}, {"CatalysisModel"}),
             St({"CatalysisModel"}, {"solver"}),
             St({}, {"L_with_jac"}),
             St({}, {"f_test"}),
             St({"scipy", "scipy.optimize", "x", "f_test", "y", "L_with_jac"}, {})>>),
    Cell("handout_19", 672, 680,
          <<St({"np"}, {"x0"}),
             St({"scipy", "scipy.optimize", "L_with_jac", "x0", "y"}, {"res"}),
             St({"res"}, {})>>),
    Cell("handout_19", 691, 704,
          <<St({"res"}, {"x"}),
             St({"np"}, {"t"}),
             St({"np"}, {"x1"}),
             St({"Z", "x", "t"}, {"Yp"}),
             St({"plt"}, {"fig", "ax"}),
             St({"catalysis_data", "ax", "t", "Yp", "sns", "plt"}, {})>>)>>

Cells == CellsPart000 \o CellsHandout19

\* The global names the body of each function of part_000 reads when it is
\* called.
BodyPart000 ==
    ("middlesquare" :> {}) @@
    ("lcg" :> {}) @@
    ("unif_lcg" :> {"lcg_state", "lcg", "m"}) @@
    ("unif_mt" :> {"np", "m"}) @@
    ("sample_bernoulli" :> {"np"}) @@
    ("sample_discrete" :> {"np"}) @@
    ("plot_binom_pdf" :> {"np", "st", "plt"}) @@
    ("sample_exp" :> {"np"})

\* The same for the functions of handout_19.
BodyHandout19 ==
    ("A" :> {"np"}) @@
    ("g" :> {"np", "A"}) @@
    ("Z" :> {"scipy", "scipy.integrate", "g", "z0"}) @@
    ("F" :> {"Z", "np"}) @@
    ("f" :> {"F"}) @@
    ("L" :> {"np", "f"}) @@
    ("L_with_jac" :> {"np", "solver"}) @@
    ("f_test" :> {"L_with_jac"})

Body == BodyPart000 @@ BodyHandout19

\* The names an evaluation reads: the names in the statement and, through
\* every function among them, the names the function's body reads.
RECURSIVE Reads(_)
Reads(names) ==
    LET more == names \cup UNION {Body[n] : n \in names \cap DOMAIN Body}
    IN  IF more = names THEN names ELSE Reads(more)

\* A statement whose bindings are lost.
Bind_dropped(names, st) == names

\* The namespace after a statement has executed.
Bind(names, st) == names \cup st.b

\* Executes the statements from statement i on in the namespace names: the
\* first statement that reads an unbound name raises NameError and ends the
\* cell, and what was bound before stays bound.  Gives <<namespace, error>>.
RECURSIVE Execute(_, _, _)
Execute(names, steps, i) ==
    IF i > Len(steps) THEN <<names, NoError>>
    ELSE IF Reads(steps[i].r) \subseteq names
         THEN Execute(Bind(names, steps[i]), steps, i + 1)
         ELSE <<names, NameError>>

\* The cells of notebook nb, as indices of Cells, and the first of them.
CellsOf(nb) == {c \in 1 .. Len(Cells) : Cells[c].nb = nb}
FirstCell(nb) == CHOOSE c \in CellsOf(nb) : \A d \in CellsOf(nb) : c <= d

\* The catalysis model of handout_19.  Reals are fixed-point numbers: np.exp
\* gives numerators over ExpScale, so the rates k = np.exp(x) / 180. are
\* numerators over KDen; concentrations are integers.  Vectors and matrices
\* are indexed from 0, as numpy indexes them.
ExpScale == 10^3
KDen == RateScale * ExpScale

\* The components of x the model evaluates the functions at.
XValues == {0 - 1, 0, 1}

\* The series 1 + x + x^2/2! + ... of np.exp for an integer x >= 0, from
\* term number n on.
RECURSIVE ExpSeries(_, _, _)
ExpSeries(x, term, n) ==
    IF n > ExpTerms \/ term = 0 THEN 0
    ELSE term + ExpSeries(x, (term * x) \div n, n + 1)

np_exp(x) ==
    IF x >= 0 THEN ExpSeries(x, ExpScale, 1)
    ELSE (ExpScale * ExpScale) \div ExpSeries(0 - x, ExpScale, 1)

\* np.zeros((6,6))
np_zeros == [ij \in (0 .. 5) \X (0 .. 5) |-> 0]

\* A with the loss of NO2- to N2O left out of the diagonal:
\* res[1, 1] = -(k[1] + k[3]).
A_leaky(x) ==
    LET k == [i \in 0 .. 4 |-> np_exp(x[i])]
    IN  [np_zeros EXCEPT ![<<0, 0>>] = 0 - k[0],
                         ![<<1, 0>>] = k[0],
                         ![<<1, 1>>] = 0 - (k[1] + k[3]),
                         ![<<2, 1>>] = k[1],
                         ![<<2, 2>>] = 0 - k[2],
                         ![<<3, 2>>] = k[2],
                         ![<<4, 1>>] = k[4],
                         ![<<5, 1>>] = k[3]]

\* The matrix of the dynamical system, its entries numerators over KDen.
A(x) ==
    LET k == [i \in 0 .. 4 |-> np_exp(x[i])]
    IN  [np_zeros EXCEPT ![<<0, 0>>] = 0 - k[0],
                         ![<<1, 0>>] = k[0],
                         ![<<1, 1>>] = 0 - (k[1] + k[3] + k[4]),
                         ![<<2, 1>>] = k[1],
                         ![<<2, 2>>] = 0 - k[2],
                         ![<<3, 2>>] = k[2],
                         ![<<4, 1>>] = k[4],
                         ![<<5, 1>>] = k[3]]

\* np.dot(M, z) for a 6 x 6 matrix and a vector of 6.
np_dot(M, z) ==
    [i \in 0 .. 5 |-> M[<<i, 0>>] * z[0] + M[<<i, 1>>] * z[1] + M[<<i, 2>>] * z[2]
                      + M[<<i, 3>>] * z[3] + M[<<i, 4>>] * z[4] + M[<<i, 5>>] * z[5]]

\* The right hand side of the dynamical system, numerators over KDen.
g(z, t, x) == np_dot(A(x), z)

z0 == [i \in 0 .. 5 |-> IF i = 0 THEN InitialMass ELSE 0]

\* t_exp: the times 30, 60, ..., 180, indexed from 0.
t_exp == [j \in 0 .. LastTime - 2 |-> TimeStep * (j + 1)]

\* scipy.integrate.odeint is a library.  As its documentation says, the
\* initial condition holds at the first of the times t, and row j of the
\* result is the solution at t[j].  The solution is advanced by SubSteps
\* explicit steps between two times.
RECURSIVE Advance(_, _, _, _)
Advance(z, dt, x, n) ==
    IF n = 0 THEN z
    ELSE LET rhs == g(z, 0, x)
             nz == [i \in 0 .. 5 |-> z[i] + (dt * rhs[i]) \div (KDen * SubSteps)]
         IN  IF nz = z THEN z ELSE Advance(nz, dt, x, n - 1)

RECURSIVE OdeRows(_, _, _, _)
OdeRows(z, t, x, j) ==
    IF j = Len(t) THEN <<z>>
    ELSE <<z>> \o OdeRows(Advance(z, t[j + 1] - t[j], x, SubSteps), t, x, j + 1)

\* odeint(g, y0, t, args=(x,)): the rows of the solution, indexed from 0.
odeint(y0, t, x) ==
    LET n == Cardinality(DOMAIN t)
        rows == OdeRows(y0, [j \in 1 .. n |-> t[j - 1]], x, 1)
    IN  [j \in 0 .. n - 1 |-> rows[j + 1]]

\* Z(x, t): the full solution of the dynamical system.
Z(x, t) == odeint(z0, t, x)

\* F with the last column dropped in place of column 2:
\* np.hstack([res[:, :2], res[:, 2:5]]).
F_drops_last(x, t) ==
    LET res == Z(x, t)
    IN  [j \in DOMAIN res |-> [c \in 0 .. 4 |-> res[j][c]]]

\* F(x, t): np.hstack([res[:, :2], res[:, 3:]]), the columns 0, 1 and then
\* 3, 4, 5 of every row.
F(x, t) ==
    LET res == Z(x, t)
    IN  [j \in DOMAIN res |-> [c \in 0 .. 4 |-> IF c < 2 THEN res[j][c]
                                                 ELSE res[j][c + 1]]]

\* ndarray.flatten() of a matrix with 5 columns: row after row.
flatten(M) ==
    [i \in 0 .. 5 * Cardinality(DOMAIN M) - 1 |-> M[i \div 5][i % 5]]

\* f(x, t)
f(x, t) == flatten(F(x, t))

----------------------------------------------------------------------------
(* Initial states *)

PrngInit ==
    /\ m = MaxInteger
    /\ lcg_seed = LcgSeed
    /\ lcg_state = LcgSeed
    /\ lcg_ret = <<>>
    /\ ncalls = 0
    /\ samples = <<>>
    /\ prev_samples = <<>>
    /\ first_sample = <<>>
    /\ seed_returned = FALSE
    /\ hist_runs = 0
    /\ mt_ret = <<>>

LoopInit ==
    /\ s = LoopSeed
    /\ s_prev = LoopSeed
    /\ loop_k = 0
    /\ la = LcgA
    /\ lb = LcgB
    /\ lm = LcgM

BernIdle ==
    /\ theta = 0
    /\ b_u = 0
    /\ b_ret = 0
    /\ b_called = FALSE

NoReturn == [tag |-> "unset", val |-> 0]

DiscIdle ==
    /\ d_p = <<>>
    /\ d_u = 0
    /\ d_ret = NoReturn
    /\ d_called = FALSE

ExpIdle ==
    /\ e_r = Den \div 2
    /\ e_u = 0
    /\ e_ret = Finite(0, 1)
    /\ e_called = FALSE

\* The library generator where no cell draws from it.
MtIdle ==
    /\ mt_gen = <<1, 1>>
    /\ mt_state = 0
    /\ mt_seed = NoSeed
    /\ mt_pos = 0
    /\ printed1 = <<>>
    /\ printed2 = <<>>
    /\ printed3 = <<>>
    /\ cell2_seed = NoSeed
    /\ cell2_pos = 0

MsIdle ==
    /\ ms_arg = 0
    /\ ms_digits = DefaultDigits
    /\ ms_ret = 0
    /\ ms_called = FALSE
    /\ ms_seed = NoSeed
    /\ ms_s = 0
    /\ ms_printed = <<>>

\* A kernel just started: nothing but the builtins is bound.
FreshKernel(nb) ==
    /\ nb_open = nb
    /\ nb_names = {}
    /\ nb_before = {}
    /\ nb_last = 0
    /\ nb_error = NoError
    /\ nb_count = 0
    /\ nb_inorder = TRUE

NbIdle == FreshKernel("part_000")

\* The catalysis model with nothing evaluated yet.
CatFresh ==
    /\ cat_A = <<>>
    /\ cat_z = z0
    /\ cat_g = <<>>
    /\ cat_Z = <<>>
    /\ cat_F = <<>>
    /\ cat_f = <<>>

CatIdle == cat_x = [i \in 0 .. 4 |-> 0] /\ CatFresh

LaterIdle == ExpIdle /\ MtIdle /\ MsIdle /\ NbIdle /\ CatIdle

\* x0 = np.random.randn(5), and every x the optimiser passes on.
CatInputs == cat_x \in [0 .. 4 -> XValues] /\ CatFresh

InitCatalysis ==
    /\ PrngInit /\ LoopInit /\ BernIdle /\ DiscIdle /\ ExpIdle /\ MtIdle /\ MsIdle
    /\ NbIdle /\ CatInputs

InitNotebook ==
    /\ PrngInit /\ LoopInit /\ BernIdle /\ DiscIdle /\ ExpIdle /\ MtIdle /\ MsIdle
    /\ \E nb \in Notebooks : FreshKernel(nb)
    /\ CatIdle

MsInputs ==
    /\ ms_digits \in Digits
    /\ ms_arg \in 0 .. 10^ms_digits - 1
    /\ ms_ret = 0
    /\ ms_called = FALSE
    /\ ms_seed = NoSeed
    /\ ms_s = 0
    /\ ms_printed = <<>>

\* seed = ...; s = seed, for any seed of at most ms_digits digits.
MsSeeded ==
    /\ ms_digits \in Digits
    /\ ms_seed \in 0 .. 10^ms_digits - 1
    /\ ms_s = ms_seed
    /\ ms_printed = <<>>
    /\ ms_arg = 0
    /\ ms_ret = 0
    /\ ms_called = FALSE

InitIterate ==
    /\ PrngInit /\ LoopInit /\ BernIdle /\ DiscIdle /\ ExpIdle /\ MtIdle
    /\ MsSeeded /\ NbIdle /\ CatIdle

InitMiddle ==
    /\ PrngInit /\ LoopInit /\ BernIdle /\ DiscIdle /\ ExpIdle /\ MtIdle
    /\ MsInputs /\ NbIdle /\ CatIdle

\* The library generator before any cell has seeded it: numpy seeds it from
\* the operating system, so its state is any state.
MtInputs ==
    /\ mt_gen \in MtGens
    /\ mt_state \in 0 .. MtMod - 1
    /\ mt_seed = NoSeed
    /\ mt_pos = 0
    /\ printed1 = <<>>
    /\ printed2 = <<>>
    /\ printed3 = <<>>
    /\ cell2_seed = NoSeed
    /\ cell2_pos = 0

InitSeed ==
    /\ PrngInit /\ LoopInit /\ BernIdle /\ DiscIdle /\ ExpIdle /\ MtInputs
    /\ MsIdle /\ NbIdle /\ CatIdle

Init == PrngInit /\ LoopInit /\ BernIdle /\ DiscIdle /\ LaterIdle

\* The cell of sample_bernoulli with its argument chosen.
BernInputs ==
    /\ theta \in ThetaRange
    /\ b_u = 0
    /\ b_ret = 0
    /\ b_called = FALSE

InitBernoulli == PrngInit /\ LoopInit /\ BernInputs /\ DiscIdle /\ LaterIdle

\* The cell of sample_discrete with its argument chosen.
DiscInputs ==
    /\ d_p \in PArrays
    /\ d_u = 0
    /\ d_ret = NoReturn
    /\ d_called = FALSE

InitDiscrete == PrngInit /\ LoopInit /\ BernIdle /\ DiscInputs /\ LaterIdle

\* The cell of sample_exp with its argument chosen.
ExpInputs ==
    /\ e_r \in RateRange
    /\ e_u = 0
    /\ e_ret = Finite(0, 1)
    /\ e_called = FALSE

InitExp ==
    /\ PrngInit /\ LoopInit /\ BernIdle /\ DiscIdle /\ ExpInputs /\ MtIdle
    /\ MsIdle /\ NbIdle /\ CatIdle

----------------------------------------------------------------------------
(* The cells of the generators *)

\* One call of unif_lcg().
UnifLcg ==
    /\ ncalls < MaxCalls
    /\ lcg_state' = unif_lcg_state
    /\ lcg_ret' = <<lcg_state', m>>
    /\ ncalls' = ncalls + 1
    /\ samples' = Append(samples, lcg_ret')
    /\ first_sample' = IF ncalls = 0 THEN lcg_ret' ELSE first_sample
    /\ seed_returned' = (seed_returned \/ lcg_ret' = <<lcg_seed, m>>)
    /\ UNCHANGED <<m, lcg_seed, prev_samples, hist_runs, mt_ret>>
    /\ UNCHANGED <<loop_vars, bern_vars, disc_vars>>
    /\ UNCHANGED later_vars

\* One call of unif_mt().
UnifMt ==
    /\ \E d \in randint(0, m) : mt_ret' = <<d, m>>
    /\ UNCHANGED <<m, lcg_seed, lcg_state, lcg_ret, ncalls, samples, prev_samples,
                   first_sample, seed_returned, hist_runs>>
    /\ UNCHANGED <<loop_vars, bern_vars, disc_vars>>
    /\ UNCHANGED later_vars

\* The cell is executed again: m, lcg_seed and lcg_state are assigned anew.
RunCell ==
    /\ ncalls > 0
    /\ m' = MaxInteger
    /\ lcg_seed' = LcgSeed
    /\ lcg_state' = CellLcgState(lcg_seed')
    /\ lcg_ret' = <<>>
    /\ ncalls' = 0
    /\ prev_samples' = samples
    /\ samples' = <<>>
    /\ first_sample' = <<>>
    /\ seed_returned' = FALSE
    /\ mt_ret' = <<>>
    /\ UNCHANGED hist_runs
    /\ UNCHANGED <<loop_vars, bern_vars, disc_vars>>
    /\ UNCHANGED later_vars

\* The pairs (a, b, m) the loop cell passes to lcg: the defaults and small ones.
LoopParams == {<<LcgA, LcgB, LcgM>>, <<5, 3, 7>>, <<1, 1, 2>>}

LoopSeeds == {LoopSeed, LcgSeed, 0, 1, 0 - 1, 0 - LoopSeed, LcgM - 1, LcgM,
              LcgM + 1, 0 - LcgM - 1}

\* seed = ...; s = seed
LcgLoopStart ==
    /\ \E x \in LoopSeeds, q \in LoopParams :
          /\ s' = x
          /\ s_prev' = x
          /\ la' = q[1]
          /\ lb' = q[2]
          /\ lm' = q[3]
    /\ loop_k' = 0
    /\ UNCHANGED <<prng_vars, bern_vars, disc_vars>>
    /\ UNCHANGED later_vars

\* s = lcg(s)
LcgLoopStep ==
    /\ loop_k < MaxLoop
    /\ s' = lcg(s, la, lb, lm)
    /\ s_prev' = s
    /\ loop_k' = loop_k + 1
    /\ UNCHANGED <<la, lb, lm>>
    /\ UNCHANGED <<prng_vars, bern_vars, disc_vars>>
    /\ UNCHANGED later_vars

\* The histogram cell: lcg_X = [unif_lcg() for _ in range(N)], with N = HistN.
\* Cells run in the notebook's order: this one follows the single calls.
HistogramCell ==
    /\ ncalls >= MaxCalls
    /\ hist_runs < MaxRuns
    /\ \E r \in {CallsInList(<<lcg_state, seed_returned>>, HistN)} :
          /\ lcg_state' = r[1]
          /\ seed_returned' = r[2]
    /\ lcg_ret' = <<lcg_state', m>>
    /\ ncalls' = ncalls + HistN
    /\ hist_runs' = hist_runs + 1
    /\ UNCHANGED <<m, lcg_seed, samples, prev_samples, first_sample, mt_ret>>
    /\ UNCHANGED <<loop_vars, bern_vars, disc_vars>>
    /\ UNCHANGED later_vars

Next == UnifLcg \/ UnifMt \/ RunCell \/ LcgLoopStart \/ LcgLoopStep

Spec == Init /\ [][Next]_vars

\* The generator run for long: the single calls, then the histogram cell
\* again and again.
NextPeriod == UnifLcg \/ HistogramCell

SpecPeriod == Init /\ [][NextPeriod]_vars

----------------------------------------------------------------------------
(* The cells of the sampling functions *)

\* One call sample_bernoulli(theta).
SampleBernoulli ==
    /\ \E u \in rand :
          /\ b_u' = u
          /\ b_ret' = sample_bernoulli(theta, u)
    /\ b_called' = TRUE
    /\ UNCHANGED theta
    /\ UNCHANGED <<prng_vars, loop_vars, disc_vars>>
    /\ UNCHANGED later_vars

SpecBernoulli == InitBernoulli /\ [][SampleBernoulli]_vars

\* One call sample_discrete(p).
SampleDiscrete ==
    /\ \E u \in rand :
          /\ d_u' = u
          /\ d_ret' = sample_discrete(d_p, u)
    /\ d_called' = TRUE
    /\ UNCHANGED d_p
    /\ UNCHANGED <<prng_vars, loop_vars, bern_vars>>
    /\ UNCHANGED later_vars

SpecDiscrete == InitDiscrete /\ [][SampleDiscrete]_vars

\* One call sample_exp(r).
SampleExp ==
    /\ \E u \in rand :
          /\ e_u' = u
          /\ e_ret' = sample_exp(e_r, u)
    /\ e_called' = TRUE
    /\ UNCHANGED e_r
    /\ UNCHANGED <<prng_vars, loop_vars, bern_vars, disc_vars>>
    /\ UNCHANGED <<mt_vars, ms_vars, nb_vars, cat_vars>>

SpecExp == InitExp /\ [][SampleExp]_vars

----------------------------------------------------------------------------
(* The cells that seed numpy's generator and print integers from it *)

not_mt_vars ==
    <<prng_vars, loop_vars, bern_vars, disc_vars, exp_vars, ms_vars, nb_vars,
      cat_vars>>

\* np.random.seed(12345); for _ in range(5): print np.random.randint(...)
SeedCell ==
    /\ \E st \in {np_random_seed(<<mt_state, mt_seed, mt_pos>>, MtSeed)} :
          /\ st[3] + MtPrints <= MaxPos
          /\ \E r \in {PrintInts(mt_gen, st[1], MtHigh, MtPrints)} :
                /\ mt_state' = r[1]
                /\ printed1' = r[2]
          /\ mt_seed' = st[2]
          /\ mt_pos' = st[3] + MtPrints
    /\ UNCHANGED <<mt_gen, printed2, printed3, cell2_seed, cell2_pos>>
    /\ UNCHANGED not_mt_vars

\* for _ in range(5): print np.random.randint(...), with no call of seed
DrawCell ==
    /\ mt_pos + MtPrints <= MaxPos
    /\ \E r \in {PrintInts(mt_gen, mt_state, MtHigh, MtPrints)} :
          /\ mt_state' = r[1]
          /\ printed2' = r[2]
    /\ cell2_seed' = mt_seed
    /\ cell2_pos' = mt_pos
    /\ mt_pos' = mt_pos + MtPrints
    /\ UNCHANGED <<mt_gen, mt_seed, printed1, printed3>>
    /\ UNCHANGED not_mt_vars

\* np.random.seed(12345) again; for _ in range(5): print np.random.randint(...)
ResetCell ==
    /\ \E st \in {np_random_seed(<<mt_state, mt_seed, mt_pos>>, MtSeed)} :
          /\ st[3] + MtPrints <= MaxPos
          /\ \E r \in {PrintInts(mt_gen, st[1], MtHigh, MtPrints)} :
                /\ mt_state' = r[1]
                /\ printed3' = r[2]
          /\ mt_seed' = st[2]
          /\ mt_pos' = st[3] + MtPrints
    /\ UNCHANGED <<mt_gen, printed1, printed2, cell2_seed, cell2_pos>>
    /\ UNCHANGED not_mt_vars

\* np.random.seed(123456), in the cell of unif_mt
SeedUnifMt ==
    /\ \E st \in {np_random_seed(<<mt_state, mt_seed, mt_pos>>, UnifMtSeed)} :
          /\ mt_state' = st[1]
          /\ mt_seed' = st[2]
          /\ mt_pos' = st[3]
    /\ UNCHANGED <<mt_gen, printed1, printed2, printed3, cell2_seed, cell2_pos>>
    /\ UNCHANGED not_mt_vars

\* One draw some other cell makes: unif_mt(), np.random.rand().
OtherDraw ==
    /\ mt_pos < MaxPos
    /\ mt_state' = mt_next(mt_gen, mt_state)
    /\ mt_pos' = mt_pos + 1
    /\ UNCHANGED <<mt_gen, mt_seed, printed1, printed2, printed3, cell2_seed,
                   cell2_pos>>
    /\ UNCHANGED not_mt_vars

NextSeed == SeedCell \/ DrawCell \/ ResetCell \/ SeedUnifMt \/ OtherDraw

SpecSeed == InitSeed /\ [][NextSeed]_vars

(* The middle-square generator *)

not_ms_vars ==
    <<prng_vars, loop_vars, bern_vars, disc_vars, exp_vars, mt_vars, nb_vars,
      cat_vars>>

\* One call middlesquare(s, digits).
MiddleSquareCall ==
    /\ ~ms_called
    /\ ms_ret' = middlesquare(ms_arg, ms_digits)
    /\ ms_called' = TRUE
    /\ UNCHANGED <<ms_arg, ms_digits, ms_seed, ms_s, ms_printed>>
    /\ UNCHANGED not_ms_vars

\* seed = 1234; s = seed; for _ in range(20): s = middlesquare(s, digits=4)
MiddleCell ==
    /\ ms_seed' = MiddleSeed
    /\ \E r \in {MiddleLoop(MiddleSeed, MiddleIters)} :
          /\ ms_s' = r[1]
          /\ ms_printed' = r[2]
    /\ UNCHANGED <<ms_arg, ms_digits, ms_ret, ms_called>>
    /\ UNCHANGED not_ms_vars

\* seed = 540; s = seed; for _ in range(20): s = middlesquare(s, digits=4)
PeriodicCell ==
    /\ ms_seed' = PeriodicSeed
    /\ \E r \in {MiddleLoop(PeriodicSeed, MiddleIters)} :
          /\ ms_s' = r[1]
          /\ ms_printed' = r[2]
    /\ UNCHANGED <<ms_arg, ms_digits, ms_ret, ms_called>>
    /\ UNCHANGED not_ms_vars

NextMiddle == MiddleSquareCall \/ MiddleCell \/ PeriodicCell

SpecMiddle == InitMiddle /\ [][NextMiddle]_vars

\* The value printed last has been printed before, or is the seed.
Repeated ==
    /\ ms_printed # <<>>
    /\ \/ ms_printed[Len(ms_printed)] = ms_seed
       \/ \E i \in 1 .. Len(ms_printed) - 1 :
             ms_printed[i] = ms_printed[Len(ms_printed)]

\* s = middlesquare(s, digits); print s: one iteration of the loop, for as
\* long as the values are new.
MiddleIterate ==
    /\ ~Repeated
    /\ \E y \in {middlesquare(ms_s, ms_digits)} :
          /\ ms_s' = y
          /\ ms_printed' = Append(ms_printed, y)
    /\ UNCHANGED <<ms_arg, ms_digits, ms_ret, ms_called, ms_seed>>
    /\ UNCHANGED not_ms_vars

SpecIterate == InitIterate /\ [][MiddleIterate]_vars

(* The notebook kernel *)

not_nb_vars ==
    <<prng_vars, loop_vars, bern_vars, disc_vars, exp_vars, mt_vars, ms_vars,
      cat_vars>>

\* Kernel > Restart, for either notebook.
RestartKernel ==
    /\ nb_last # 0
    /\ \E nb \in Notebooks :
          /\ nb_open' = nb
          /\ nb_names' = {}
          /\ nb_before' = {}
          /\ nb_last' = 0
          /\ nb_error' = NoError
          /\ nb_count' = 0
          /\ nb_inorder' = TRUE
    /\ UNCHANGED not_nb_vars

\* The user executes one code cell of the open notebook: any cell, or the
\* next one of a run of the notebook from its top.
ExecuteCell ==
    /\ \E c \in CellsOf(nb_open) :
          /\ \/ nb_count < MaxCells
             \/ nb_inorder /\ c = FirstCell(nb_open) + nb_count
          /\ \E r \in {Execute(nb_names, Cells[c].steps, 1)} :
                /\ nb_names' = r[1]
                /\ nb_error' = r[2]
          /\ nb_last' = c
          /\ nb_inorder' = (nb_inorder /\ c = FirstCell(nb_open) + nb_count)
    /\ nb_before' = nb_names
    /\ nb_count' = nb_count + 1
    /\ UNCHANGED nb_open
    /\ UNCHANGED not_nb_vars

NextNotebook == RestartKernel \/ ExecuteCell

SpecNotebook == InitNotebook /\ [][NextNotebook]_vars

(* The catalysis model of handout_19 *)

not_cat_vars ==
    <<prng_vars, loop_vars, bern_vars, disc_vars, exp_vars, mt_vars, ms_vars,
      nb_vars>>

\* One call A(x).
EvalA ==
    /\ cat_A' = A(cat_x)
    /\ UNCHANGED <<cat_x, cat_z, cat_g, cat_Z, cat_F, cat_f>>
    /\ UNCHANGED not_cat_vars

\* One call g(z, t, x), as the solver makes them: at z0 or at a state the
\* solution has reached.
EvalG ==
    /\ \E z \in {z0} \cup {cat_Z[j] : j \in DOMAIN cat_Z} :
          /\ cat_z' = z
          /\ cat_g' = g(z, 0, cat_x)
    /\ UNCHANGED <<cat_x, cat_A, cat_Z, cat_F, cat_f>>
    /\ UNCHANGED not_cat_vars

\* One call L(x, t_exp, y), as scipy.optimize.minimize makes them: it
\* evaluates f(x, t_exp), and through it F and Z, and compares entry i of
\* the result with entry i of y.
EvalL ==
    /\ cat_Z' = Z(cat_x, t_exp)
    /\ cat_F' = F(cat_x, t_exp)
    /\ cat_f' = f(cat_x, t_exp)
    /\ UNCHANGED <<cat_x, cat_A, cat_z, cat_g>>
    /\ UNCHANGED not_cat_vars

NextCatalysis == EvalA \/ EvalG \/ EvalL

SpecCatalysis == InitCatalysis /\ [][NextCatalysis]_vars

(* Properties of the linear congruential generator *)

\* (a * x) mod m for 0 <= x, by doubling over the bits of x.
RECURSIVE TimesMod(_, _, _)
TimesMod(a, x, mm) ==
    IF x = 0 THEN 0
    ELSE (2 * TimesMod(a, x \div 2, mm) + (x % 2) * (a % mm)) % mm

\* The residue of a * x + b modulo m in 0..m-1.
LinearCongruence(x, a, b, mm) == (TimesMod(a, x % mm, mm) + (b % mm)) % mm

\* a * x + b can be written down as it stands: it is below 2^30 in size.
Direct(x, a, b) ==
    LET most == ((2^30 - 1) - b) \div a
    IN  (0 - most) <= x /\ x <= most

RECURSIVE LcgIterated(_, _)
LcgIterated(x, n) ==
    IF n = 0 THEN x
    ELSE LinearCongruence(LcgIterated(x, n - 1), LcgA, LcgB, LcgM)

InUnitInterval(q) == Len(q) = 2 /\ 0 <= q[1] /\ q[1] < q[2]

Min(i, j) == IF i <= j THEN i ELSE j

\* C1: every application of lcg(x, a, b, m) yields (a * x + b) mod m: each
\* iteration of the loop cell does, for the default and for other positive
\* a, b, m and for negative, small and large x, and so does each sample of
\* unif_lcg with respect to the state before it.
C1_LcgIsLinearCongruence ==
    /\ loop_k > 0 =>
          /\ s = LinearCongruence(s_prev, la, lb, lm)
          /\ Direct(s_prev, la, lb) => s = (la * s_prev + lb) % lm
    /\ \A i \in 1 .. Len(samples) :
          samples[i][1] =
              LinearCongruence(IF i = 1 THEN lcg_seed ELSE samples[i - 1][1],
                               LcgA, LcgB, LcgM)

C1_Witness ==
    /\ loop_k = MaxLoop
    /\ <<la, lb, lm>> = <<LcgA, LcgB, LcgM>>
    /\ s_prev > LcgM \div 2
    /\ Len(samples) >= 2

C3_Determinism ==
    \A i \in 1 .. Min(Len(samples), Len(prev_samples)) :
        samples[i] = prev_samples[i]

C3_Witness == Len(prev_samples) >= 3 /\ Len(samples) >= 3

C5_NoSeeding ==
    /\ lcg_seed = LcgSeed
    /\ m = MaxInteger
    /\ lcg_state = LcgIterated(lcg_seed, ncalls)
    /\ ncalls > 0 => lcg_ret = <<LcgIterated(lcg_seed, ncalls), m>>
    /\ \A i \in 1 .. Len(samples) : samples[i] = <<LcgIterated(lcg_seed, i), m>>

C5_Witness == ncalls = MaxCalls /\ lcg_state # lcg_seed /\ Len(samples) = MaxCalls

----------------------------------------------------------------------------
(* Properties of the sampling functions *)

\* C6: sample_bernoulli(theta) returns 1 when u <= theta and 0 otherwise,
\* for every theta and every draw u; it returns nothing but 0 or 1.
C6_Bernoulli ==
    b_called =>
        /\ b_ret \in {0, 1}
        /\ b_u <= theta => b_ret = 1
        /\ b_u > theta => b_ret = 0

C6_Witness == b_called /\ b_u = theta /\ 0 < theta /\ theta < Den /\ b_ret = 1

\* C7: sample_bernoulli(0) returns 0 for every draw u of [0, 1), u = 0 included.
C7_BernoulliZero == (b_called /\ theta = 0) => b_ret = 0

\* C8: sample_bernoulli(1) returns 1 for every draw u of [0, 1).
C8_BernoulliOne == (b_called /\ theta = Den) => b_ret = 1

C8_Witness == b_called /\ theta = Den /\ b_u = Den - 1 /\ b_ret = 1

\* p is a probability vector: no negative entry, the entries sum to 1.
RECURSIVE CumSum(_, _)
CumSum(p, j) == IF j < 0 THEN 0 ELSE p[j + 1] + CumSum(p, j - 1)

IsDistribution(p) ==
    /\ Len(p) >= 1
    /\ \A k \in 1 .. Len(p) : p[k] >= 0
    /\ CumSum(p, Len(p) - 1) = Den

C10_HalfOpenInterval ==
    (d_called /\ IsDistribution(d_p)) =>
        /\ d_ret.tag = "int"
        /\ CumSum(d_p, d_ret.val - 1) <= d_u
        /\ d_u < CumSum(d_p, d_ret.val)

\* C11: sample_discrete([1.0]) returns the index 0 for every draw u of [0, 1).
C11_SingleState == (d_called /\ d_p = <<Den>>) => d_ret = IntReturn(0)

C11_Witness == d_called /\ d_p = <<Den>> /\ d_u = Den - 1 /\ d_ret = IntReturn(0)

\* C12: sample_discrete(p) ends in an error instead of a return value when p
\* is no probability vector (a negative entry, a sum other than 1, no entry).
C12_InvalidDistribution ==
    (d_called /\ ~IsDistribution(d_p)) => d_ret.tag \notin {"int", "None"}

\* C13: sample_bernoulli(theta) with theta < 0 or theta > 1 ends in an error
\* and returns neither 0 nor 1.
C13_InvalidTheta ==
    (b_called /\ (theta < 0 \/ theta > Den)) => b_ret \notin {0, 1}

\* C14: sample_exp(r) with a rate r <= 0 ends in an error and returns no
\* sample.
C14_InvalidRate ==
    (e_called /\ e_r <= 0) => e_ret.kind \notin {"finite", "inf", "nan"}

\* C15: for a rate r > 0 and a draw u of [0, 1), sample_exp(r) returns
\* -ln(1 - u) / r: a quotient that is not negative, that is 0 exactly when
\* u = 0, and that lies between u / r and u / ((1 - u) * r), the bounds of
\* the logarithm.
C15_InverseCdf ==
    (e_called /\ e_r > 0) =>
        /\ e_ret.kind = "finite"
        /\ e_ret.den > 0
        /\ e_ret.num >= 0
        /\ (e_ret.num = 0) <=> (e_u = 0)
        /\ e_ret.num * e_r >= e_u * e_ret.den
        /\ e_ret.num * (Den - e_u) * e_r <= e_u * Den * e_ret.den

C15_Witness ==
    /\ e_called /\ e_r = Den \div 2 /\ e_u = Den - 1
    /\ e_ret.kind = "finite" /\ e_ret.num > 0

\* The first n integers the library generator g returns after
\* np.random.seed(seed).
Stream(gen, seed, n) == PrintInts(gen, seed % MtMod, MtHigh, n)[2]

C18_MiddleDigits ==
    (ms_called /\ ms_digits % 2 = 0 /\ 0 <= ms_arg /\ ms_arg < 10^ms_digits) =>
        ms_ret = ((ms_arg * ms_arg) \div 10^(ms_digits \div 2)) % 10^ms_digits

C18_Witness ==
    /\ ms_called /\ ms_digits = 4 /\ ms_arg = 1234 /\ ms_ret = 5227

\* C19: from seed 540 the middle-square sequence with 4 digits is 2916,
\* 5030, 3009, 540 and then repeats: it has period 4, and the 20 values the
\* cell prints are 4 distinct numbers.
C19_PeriodFour ==
    ms_seed = PeriodicSeed =>
        /\ Len(ms_printed) = 20
        /\ SubSeq(ms_printed, 1, 4) = <<2916, 5030, 3009, 540>>
        /\ \A i \in 1 .. 16 : ms_printed[i + 4] = ms_printed[i]
        /\ Cardinality({ms_printed[i] : i \in 1 .. 20}) = 4
        /\ ms_s = PeriodicSeed

C19_Witness ==
    /\ ms_seed = PeriodicSeed /\ Len(ms_printed) = 20
    /\ ms_printed[4] = 540 /\ ms_printed[20] = 540

\* C20: every code cell is self-contained: executed on its own or in any
\* order, a cell reads no name that only another cell defines, so no
\* execution ends in a NameError.
C20_SelfContained == nb_last # 0 => nb_error = NoError

\* C20, amended: cells read names that earlier cells define.  Executed in the
\* order of the notebook from a fresh kernel, every cell finds the names it
\* reads; the cell of sample_exp only succeeds once r, t, st, np and plt are
\* bound, and the cell of L_with_jac only once x, y, np and scipy.optimize
\* are bound.
C20_InOrder ==
    /\ (nb_inorder /\ nb_last # 0) => nb_error = NoError
    /\ (nb_last # 0 /\ nb_error = NoError) =>
          /\ Cells[nb_last].lines = <<613, 625>> =>
                {"r", "t", "st", "np", "plt"} \subseteq nb_before
          /\ Cells[nb_last].lines = <<637, 661>> =>
                {"x", "y", "np", "scipy.optimize"} \subseteq nb_before

C20_Witness ==
    /\ nb_inorder /\ nb_last # 0 /\ nb_error = NoError
    /\ Cells[nb_last].lines = <<637, 661>>
    /\ {"x", "y"} \subseteq nb_before

\* The matrix A(k_1, ..., k_5) as the handout writes it, for k = <<k_1, ...,
\* k_5>> indexed from 0.
DocumentedA(k) ==
    [ij \in (0 .. 5) \X (0 .. 5) |->
        CASE ij = <<0, 0>> -> 0 - k[0]
          [] ij = <<1, 0>> -> k[0]
          [] ij = <<1, 1>> -> 0 - (k[1] + k[3] + k[4])
          [] ij = <<2, 1>> -> k[1]
          [] ij = <<2, 2>> -> 0 - k[2]
          [] ij = <<3, 2>> -> k[2]
          [] ij = <<4, 1>> -> k[3]
          [] ij = <<5, 1>> -> k[4]
          [] OTHER -> 0]

Rates(x) == [i \in 0 .. 4 |-> np_exp(x[i])]

\* C21: the matrix A(x) builds is the documented system matrix, entry by
\* entry: k4 in row 5 (NH3) and k5 in row 6 (N2O) of column 2, and 0
\* wherever the documented matrix has 0.
C21_DocumentedMatrix == cat_A # <<>> => cat_A = DocumentedA(Rates(cat_x))

Total(z) == z[0] + z[1] + z[2] + z[3] + z[4] + z[5]

\* C22: every column of A(x) sums to zero, so the six components of
\* g(z, t, x) sum to zero for every z; the total concentration starts at 500
\* and the solver keeps it there, up to the rounding of its steps (each of
\* the 6 components rounds down by less than one unit in a step).
C22_MassConserved ==
    /\ cat_A # <<>> =>
          \A j \in 0 .. 5 : Total([i \in 0 .. 5 |-> cat_A[<<i, j>>]]) = 0
    /\ cat_g # <<>> => Total(cat_g) = 0
    /\ Total(z0) = 500
    /\ cat_Z # <<>> =>
          \A j \in DOMAIN cat_Z :
              /\ Total(cat_Z[j]) <= 500
              /\ Total(cat_Z[j]) >= 500 - 5 * SubSteps * j

C22_Witness ==
    /\ cat_A # <<>> /\ cat_x[3] # cat_x[4]
    /\ cat_g # <<>> /\ cat_z # z0 /\ cat_g[2] # 0

\* The solution of the system started from z(0) = z0, at the times 0, 30,
\* ..., 180.
Solution(x) == odeint(z0, [j \in 0 .. LastTime - 1 |-> TimeStep * j], x)

\* C23: the row that L compares with the measurements taken at 30j minutes
\* is the solution at time 30j of the system started from z0 at time 0; the
\* first row depends on x and is not z0.
C23_InitialConditionAtZero ==
    cat_Z # <<>> =>
        /\ cat_Z[0] # z0
        /\ \A j \in DOMAIN cat_Z : cat_Z[j] = Solution(cat_x)[j + 1]

\* C24: every row of F(x, t) holds the components z1, z2, z4, z5, z6 of the
\* solution in that order, without z3; f(x, t) is F row after row, 5 entries
\* for each of the 6 times, entry 5j + c next to the entry 5j + c of y.
C24_ObservedColumns ==
    cat_f # <<>> =>
        /\ DOMAIN cat_F = DOMAIN cat_Z
        /\ DOMAIN cat_f = 0 .. 5 * 6 - 1
        /\ \A j \in DOMAIN cat_Z : \A c \in 0 .. 4 :
              /\ cat_F[j][c] = cat_Z[j][<<0, 1, 3, 4, 5>>[c + 1]]
              /\ cat_f[5 * j + c] = cat_F[j][c]

C24_Witness ==
    /\ cat_f # <<>> /\ cat_Z[5][2] > 0 /\ cat_Z[5][2] # cat_Z[5][3]
    /\ cat_f[27] = cat_Z[5][3] /\ cat_f[29] = cat_Z[5][5]

\* C25: for every number of digits, even or odd, and every s of
\* 0 .. 10^digits - 1, middlesquare(s, digits) is an integer of
\* 0 .. 10^digits - 1; so are the values the loop from seed 1234 prints.
C25_Closed ==
    /\ ms_called => (0 <= ms_ret /\ ms_ret < 10^ms_digits)
    /\ \A i \in 1 .. Len(ms_printed) :
          0 <= ms_printed[i] /\ ms_printed[i] < 10^DefaultDigits

C25_Witness ==
    /\ ms_called /\ ms_digits = 3 /\ ms_arg = 999 /\ ms_ret = 980
    /\ ms_seed = MiddleSeed /\ Len(ms_printed) = MiddleIters

\* C26: middlesquare(0, digits) = 0, so a sequence that has reached 0 stays
\* at 0; and every sequence from a seed below 10^digits is eventually
\* periodic: until a value comes back the next value is again a number below
\* 10^digits, and a value comes back within 10^digits iterations, from where
\* the sequence repeats.
C26_EventuallyPeriodic ==
    /\ ms_s = 0 => middlesquare(ms_s, ms_digits) = 0
    /\ (ms_seed = 0 /\ ms_printed # <<>>) => ms_printed[1] = 0
    /\ \A i \in 1 .. Len(ms_printed) - 1 :
          ms_printed[i] = 0 => ms_printed[i + 1] = 0
    /\ ~Repeated => middlesquare(ms_s, ms_digits) \in 0 .. 10^ms_digits - 1
    /\ Len(ms_printed) <= 10^ms_digits

C26_Witness ==
    /\ ms_seed = 10 /\ ms_digits = DefaultDigits
    /\ Len(ms_printed) > 2 /\ ms_s = 0
    /\ ms_printed[Len(ms_printed) - 1] = 0

\* C27: for a probability vector p (no negative entry, the entries sum to 1,
\* at least one entry) and a draw u of [0, 1), sample_discrete(p) returns an
\* integer index of 0 .. len(p) - 1: the loop does not end without a return,
\* the result is never None.
C27_NeverNone ==
    (d_called /\ IsDistribution(d_p) /\ d_u \in rand) =>
        /\ d_ret # NoneReturn
        /\ d_ret.tag = "int"
        /\ d_ret.val >= 0 /\ d_ret.val < Len(d_p)

C27_Witness ==
    /\ d_called /\ IsDistribution(d_p) /\ Len(d_p) = MaxLen
    /\ d_u = Den - 1 /\ d_p[MaxLen] = 2
    /\ d_ret = IntReturn(MaxLen - 1)

\* C28: for a probability vector p and a draw u of [0, 1), u = 0 included,
\* the index j that sample_discrete(p) returns has p[j] > 0.
C28_PositiveProbability ==
    (d_called /\ IsDistribution(d_p) /\ d_u \in rand) =>
        /\ d_ret.tag = "int"
        /\ d_p[d_ret.val + 1] > 0

====
